---- MODULE Spec2Model ----
(***************************************************************************)
(* Kabufuda solitaire solver (kabufuda.cpp): the board data model          *)
(* (CardStack, SwapField, Board), move validation, generation and          *)
(* execution, and the depth-first solve() loop with its visited set,       *)
(* followed by main()'s replay of the returned moves.                      *)
(*                                                                         *)
(* The program plays 10 suits of 4 cards on 8 field stacks.  The model     *)
(* keeps the suit size (4) and the 4 swap fields and scales the number of  *)
(* suits and of field stacks down (NumSuits, NumFields); the total card    *)
(* count checked by isValid scales with them (NumSuits * SuitSize, 40 in   *)
(* the program).                                                           *)
(***************************************************************************)
EXTENDS Integers, Sequences, FiniteSets, TLC

VARIABLES
    b,           \* main: the parsed puzzle board handed to solve (Board const b)
    tie,         \* how std::ranges::sort leaves moves of equal size (fixed per build)
    pc,          \* position of main/solve
    stack,       \* solve: std::vector<State> stack
    move_stack,  \* solve: std::vector<Move> move_stack, then main's `moves`
    boards,      \* solve: std::unordered_set<Board> boards
    b2,          \* main: the replay board b2; in PlaySpec the board being played
    replay_pos   \* main: how many of `moves` the replay loop has executed

vars == <<b, tie, pc, stack, move_stack, boards, b2, replay_pos>>

----------------------------------------------------------------------------
(* Bounds of the model *)

NumSuits == 3
NumFields == 2

(* Program constants *)

SuitSize == 4
NumSwaps == 4

NumCards == NumSuits * SuitSize

Cards == 0 .. (NumSuits - 1)

----------------------------------------------------------------------------
(* Sequence helpers *)

Last(s) == s[Len(s)]

Front(s) == SubSeq(s, 1, Len(s) - 1)

Reverse(s) == [i \in 1 .. Len(s) |-> s[Len(s) + 1 - i]]

\* the element of a one-element set; {e(v) : v \in {x}} evaluates x once
Only(S) == CHOOSE x \in S : TRUE

Repeat(c, n) == [i \in 1 .. n |-> c]

CountIn(s, c) == Len(SelectSeq(s, LAMBDA x : x = c))

----------------------------------------------------------------------------
(* class CardStack: [stack: Seq(Card), is_collapsed: BOOLEAN] *)

EmptyCardStack == [stack |-> <<>>, is_collapsed |-> FALSE]

getTop(s) == Last(s.stack)

\* how many of cards[1 .. k], counted from the back, equal `top` before one
\* differs (views::reverse | views::take_while)
RECURSIVE TopRunFrom(_, _, _)
TopRunFrom(cards, top, k) ==
    IF k = 0 THEN 0
    ELSE IF cards[k] = top THEN 1 + TopRunFrom(cards, top, k - 1) ELSE 0

TopRun(cards, top) == TopRunFrom(cards, top, Len(cards))

getTopSize(s) == Only({TopRun(cards, Last(cards)) : cards \in {s.stack}})

isEmpty(s) == s.stack = <<>>

CardStack_isCollapsed(s) == s.is_collapsed

CardStack_size(s) == Len(s.stack)

CardStack_pushCard(s, c) == [s EXCEPT !.stack = Append(@, c)]

CardStack_pushStack(s, c, size) == [s EXCEPT !.stack = @ \o Repeat(c, size)]

\* mutation of popCards: one pop_back() instead of `size` of them
popCards_one(s, size) == [s EXCEPT !.stack = SubSeq(@, 1, Len(@) - 1)]

popCards(s, size) == [s EXCEPT !.stack = SubSeq(@, 1, Len(@) - size)]

\* assert(!isCollapsed()); assert(size <= getTopSize());
popCards_pre(s, size) == ~CardStack_isCollapsed(s) /\ size <= getTopSize(s)

\* assert(!isCollapsed());
CardStack_pushStack_pre(s) == ~CardStack_isCollapsed(s)

\* mutation of tryCollapse: the test of stack.size() is missing
tryCollapse_topRun(s) ==
    IF getTopSize(s) = SuitSize
    THEN [s EXCEPT !.is_collapsed = TRUE]
    ELSE s

tryCollapse(s) ==
    IF CardStack_size(s) = SuitSize /\ getTopSize(s) = SuitSize
    THEN [s EXCEPT !.is_collapsed = TRUE]
    ELSE s

----------------------------------------------------------------------------
(* class SwapField: [card: Card or nullopt, state: FieldState] *)

\* the empty std::optional<Card>; an integer outside 0 .. 9
nullopt == -1

FieldState == {"Locked", "Free", "Occupied", "Collapsed"}

NewSwapField == [card |-> nullopt, state |-> "Locked"]

unlock(s) == [s EXCEPT !.state = "Free"]

isLocked(s) == s.state = "Locked"
isFree(s) == s.state = "Free"
isOccupied(s) == s.state = "Occupied"
SwapField_isCollapsed(s) == s.state = "Collapsed"

SwapField_pushCard(s, c) == [card |-> c, state |-> "Occupied"]

\* assert(state == Free); assert(!card); and, for size != 1, assert(size == 4)
SwapField_pushStack_pre(s, size) ==
    /\ s.state = "Free"
    /\ s.card = nullopt
    /\ size \in {1, SuitSize}

SwapField_pushStack(s, c, size) ==
    IF size = 1 THEN SwapField_pushCard(s, c)
    ELSE [SwapField_pushCard(s, c) EXCEPT !.state = "Collapsed"]

getCard(s) == s.card

\* assert((state == Occupied) || (state == Collapsed))
getCard_pre(s) == s.state \in {"Occupied", "Collapsed"}

\* assert(state == Occupied)
popCard_pre(s) == s.state = "Occupied"

\* mutation of popCard: the field is locked again instead of freed
popCard_relock(s) == [card |-> nullopt, state |-> "Locked"]

popCard(s) == [card |-> nullopt, state |-> "Free"]

SwapField_size(s) ==
    CASE s.state = "Occupied" -> 1
      [] s.state = "Collapsed" -> SuitSize
      [] OTHER -> 0

----------------------------------------------------------------------------
(* class Board: [swaps: 4 SwapFields, field: NumFields CardStacks].        *)
(* Array slot k of the program is position k + 1 of the sequence.          *)

Difficulty == {"Easy", "Normal", "Hard", "Expert"}

swapIndex(i) == (-i) - 1

isFieldIndex(i) == i >= 0

isSwapIndex(i) == i < 0

getField(bd, index) == bd.field[index + 1]

getSwap(bd, index) == bd.swaps[swapIndex(index) + 1]

setField(bd, index, s) == [bd EXCEPT !.field[index + 1] = s]

setSwap(bd, index, s) == [bd EXCEPT !.swaps[swapIndex(index) + 1] = s]

\* the first Locked slot in array order, 0 when there is none
FirstLocked(bd) ==
    IF \E i \in 1 .. NumSwaps : isLocked(bd.swaps[i])
    THEN CHOOSE i \in 1 .. NumSwaps :
            /\ isLocked(bd.swaps[i])
            /\ \A j \in 1 .. (i - 1) : ~isLocked(bd.swaps[j])
    ELSE 0

unlockSwap(bd) ==
    Only({IF i = 0 THEN bd ELSE [bd EXCEPT !.swaps[i] = unlock(@)] :
            i \in {FirstLocked(bd)}})

free_swaps(d) ==
    CASE d = "Easy" -> 4
      [] d = "Normal" -> 3
      [] d = "Hard" -> 2
      [] OTHER -> 1

RECURSIVE UnlockTimes(_, _)
UnlockTimes(bd, n) == IF n = 0 THEN bd ELSE UnlockTimes(unlockSwap(bd), n - 1)

NewBoard(d) ==
    UnlockTimes([swaps |-> [i \in 1 .. NumSwaps |-> NewSwapField],
                 field |-> [i \in 1 .. NumFields |-> EmptyCardStack]],
                free_swaps(d))

\* the cards of field[0], ..., field[n - 1], one stack after the other
RECURSIVE FieldCards(_, _)
FieldCards(bd, n) ==
    IF n = 0 THEN <<>> ELSE FieldCards(bd, n - 1) \o bd.field[n].stack

\* the sum of SwapField::size() over swaps[0], ..., swaps[n - 1]
RECURSIVE swaps_total(_, _)
swaps_total(bd, n) ==
    IF n = 0 THEN 0 ELSE swaps_total(bd, n - 1) + SwapField_size(bd.swaps[n])

\* the count of suit c in field_cards, the cards of the field stacks, and in
\* the swap fields
SuitCount(bd, field_cards, c) ==
    CountIn(field_cards, c)
    + Cardinality({i \in 1 .. NumSwaps :
                     isOccupied(bd.swaps[i]) /\ bd.swaps[i].card = c})
    + SuitSize * Cardinality({i \in 1 .. NumSwaps :
                                SwapField_isCollapsed(bd.swaps[i])
                                /\ bd.swaps[i].card = c})

isValid(bd) ==
    \E field_cards \in {FieldCards(bd, NumFields)} :
        /\ Len(field_cards) + swaps_total(bd, NumSwaps) = NumCards
        /\ \A c \in Cards : SuitCount(bd, field_cards, c) = SuitSize

\* mutation of hasWon: a whole suit on a field stack counts as cleared
\* without the collapsed flag
hasWon_wholeSuit(bd) ==
    /\ \A i \in 1 .. NumFields :
          \/ isEmpty(bd.field[i])
          \/ CardStack_isCollapsed(bd.field[i])
          \/ (CardStack_size(bd.field[i]) = SuitSize
              /\ getTopSize(bd.field[i]) = SuitSize)
    /\ \A i \in 1 .. NumSwaps : ~isOccupied(bd.swaps[i])

hasWon(bd) ==
    /\ \A i \in 1 .. NumFields :
          ~(~isEmpty(bd.field[i]) /\ ~CardStack_isCollapsed(bd.field[i]))
    /\ \A i \in 1 .. NumSwaps : ~isOccupied(bd.swaps[i])

----------------------------------------------------------------------------
(* struct Move: [from, to, size]; swap fields are -NumSwaps .. -1, field   *)
(* stacks 0 .. NumFields - 1 (0 .. 7 in the program).                      *)

Slots == (-NumSwaps) .. (NumFields - 1)

fieldIsValid(i) == i >= -NumSwaps /\ i < NumFields

moveIsValid(m) ==
    /\ fieldIsValid(m.from) /\ fieldIsValid(m.to)
    /\ m.size > 0 /\ m.size < 5
    /\ m.from # m.to
    /\ (isSwapIndex(m.from) => m.size = 1)
    /\ (isSwapIndex(m.to) => (m.size = 1 \/ m.size = 4))

\* the card that would move; only read once the source checks have passed
from_card(bd, m) ==
    IF isFieldIndex(m.from) THEN getTop(getField(bd, m.from))
    ELSE getCard(getSwap(bd, m.from))

moveIsValidForBoard(bd, m) ==
    /\ IF isSwapIndex(m.from)
       THEN isOccupied(getSwap(bd, m.from)) /\ m.size = 1
       ELSE ~(CardStack_size(getField(bd, m.from)) < m.size)
    /\ IF isFieldIndex(m.to)
       THEN IF ~isEmpty(getField(bd, m.to))
            THEN ~(getTop(getField(bd, m.to)) # from_card(bd, m))
            ELSE TRUE
       ELSE isFree(getSwap(bd, m.to))
    /\ (m.size > 1 => ~(getTopSize(getField(bd, m.from)) < m.size))

\* executeMove, line 652: the moved card
movedCard(bd, m) ==
    IF isSwapIndex(m.from) THEN getCard(getSwap(bd, m.from))
    ELSE getTop(getField(bd, m.from))

\* executeMove, lines 654-659: remove from
removeFrom(bd, m) ==
    IF isSwapIndex(m.from)
    THEN setSwap(bd, m.from, popCard(getSwap(bd, m.from)))
    ELSE setField(bd, m.from, popCards(getField(bd, m.from), m.size))

\* mutation of pushTo: a collapse of a swap field unlocks a swap field too
pushTo_unlockOnSwap(bd, m, c) ==
    IF isSwapIndex(m.to)
    THEN Only({IF m.size = SuitSize THEN unlockSwap(pushed) ELSE pushed :
                 pushed \in {setSwap(bd, m.to,
                                     SwapField_pushStack(getSwap(bd, m.to), c, m.size))}})
    ELSE Only({IF CardStack_isCollapsed(s)
               THEN Only({unlockSwap(pushed) : pushed \in {setField(bd, m.to, s)}})
               ELSE setField(bd, m.to, s) :
                  s \in {tryCollapse(CardStack_pushStack(getField(bd, m.to),
                                                         c, m.size))}})

\* mutation of pushTo: a collapsed destination stack unlocks nothing
pushTo_noUnlock(bd, m, c) ==
    IF isSwapIndex(m.to)
    THEN setSwap(bd, m.to, SwapField_pushStack(getSwap(bd, m.to), c, m.size))
    ELSE setField(bd, m.to,
                  tryCollapse(CardStack_pushStack(getField(bd, m.to), c, m.size)))

\* executeMove, lines 661-667: push to, collapse, unlock
pushTo(bd, m, c) ==
    IF isSwapIndex(m.to)
    THEN setSwap(bd, m.to, SwapField_pushStack(getSwap(bd, m.to), c, m.size))
    ELSE Only({IF CardStack_isCollapsed(s)
               THEN Only({unlockSwap(pushed) : pushed \in {setField(bd, m.to, s)}})
               ELSE setField(bd, m.to, s) :
                  s \in {tryCollapse(CardStack_pushStack(getField(bd, m.to),
                                                         c, m.size))}})

executeMove(bd, m) ==
    Only({pushTo(removed, m, c) :
            removed \in {removeFrom(bd, m)}, c \in {movedCard(bd, m)}})

\* every assertion executeMove and the methods it calls evaluate, in order
executeMove_asserts(bd, m) ==
    /\ moveIsValid(m)
    /\ moveIsValidForBoard(bd, m)
    /\ IF isSwapIndex(m.from)
       THEN /\ getCard_pre(getSwap(bd, m.from))
            /\ m.size = 1
            /\ popCard_pre(getSwap(bd, m.from))
       ELSE popCards_pre(getField(bd, m.from), m.size)
    /\ \E removed \in {removeFrom(bd, m)} :
          IF isSwapIndex(m.to)
          THEN SwapField_pushStack_pre(getSwap(removed, m.to), m.size)
          ELSE CardStack_pushStack_pre(getField(removed, m.to))
    /\ \E result \in {executeMove(bd, m)} : isValid(result)

----------------------------------------------------------------------------
(* getAllValidMoves *)

\* mutation of max_count: a collapsed field stack still offers its top run
max_count_ignoreCollapsed(bd, idx) ==
    IF isSwapIndex(idx)
    THEN (IF isOccupied(getSwap(bd, idx)) THEN 1 ELSE 0)
    ELSE IF isEmpty(getField(bd, idx)) THEN 0
         ELSE getTopSize(getField(bd, idx))

max_count(bd, idx) ==
    IF isSwapIndex(idx)
    THEN (IF isOccupied(getSwap(bd, idx)) THEN 1 ELSE 0)
    ELSE IF isEmpty(getField(bd, idx)) \/ CardStack_isCollapsed(getField(bd, idx))
         THEN 0
         ELSE getTopSize(getField(bd, idx))

\* assert((max_count >= 1) && (max_count <= 4)), evaluated when max_count # 0
max_count_assert(bd, idx) ==
    max_count(bd, idx) # 0 => (max_count(bd, idx) >= 1 /\ max_count(bd, idx) <= 4)

Move(f, t, n) == [from |-> f, to |-> t, size |-> n]

\* mutation of MovesFromTo: a swap field is a target unless it is Locked
MovesFromTo_anyUnlocked(bd, i_from, i_to) ==
    LET mc == max_count(bd, i_from)
        c == movedCard(bd, Move(i_from, i_to, 1))
    IN  IF i_to = i_from THEN <<>>
        ELSE IF isSwapIndex(i_to)
        THEN IF ~isLocked(getSwap(bd, i_to))
             THEN <<Move(i_from, i_to, 1)>>
                  \o (IF mc = 4 THEN <<Move(i_from, i_to, 4)>> ELSE <<>>)
             ELSE <<>>
        ELSE IF isEmpty(getField(bd, i_to)) \/ getTop(getField(bd, i_to)) = c
             THEN [i_count \in 1 .. mc |-> Move(i_from, i_to, i_count)]
             ELSE <<>>

\* the moves pushed for one (i_from, i_to) pair, in push order
MovesFromTo(bd, i_from, i_to) ==
    LET mc == max_count(bd, i_from)
        c == movedCard(bd, Move(i_from, i_to, 1))
    IN  IF i_to = i_from THEN <<>>
        ELSE IF isSwapIndex(i_to)
        THEN IF isFree(getSwap(bd, i_to))
             THEN <<Move(i_from, i_to, 1)>>
                  \o (IF mc = 4 THEN <<Move(i_from, i_to, 4)>> ELSE <<>>)
             ELSE <<>>
        ELSE IF isEmpty(getField(bd, i_to)) \/ getTop(getField(bd, i_to)) = c
             THEN [i_count \in 1 .. mc |-> Move(i_from, i_to, i_count)]
             ELSE <<>>

RECURSIVE MovesFrom(_, _, _)
MovesFrom(bd, i_from, i_to) ==
    IF i_to >= NumFields THEN <<>>
    ELSE MovesFromTo(bd, i_from, i_to) \o MovesFrom(bd, i_from, i_to + 1)

RECURSIVE Enumerate(_, _)
Enumerate(bd, i_from) ==
    IF i_from >= NumFields THEN <<>>
    ELSE (IF max_count(bd, i_from) = 0 THEN <<>>
          ELSE MovesFrom(bd, i_from, -NumSwaps))
         \o Enumerate(bd, i_from + 1)

OfSize(ms, n) == SelectSeq(ms, LAMBDA m : m.size = n)

TieOrders == {"kept", "reversed"}

\* mutation of SortBySize: the sort is missing
SortBySize_unsorted(ms) == ms

\* std::ranges::sort by descending size.  The sort is not stable: the order
\* it leaves among moves of equal size is a fixed but unspecified function
\* of the library build, modelled by `tie`.
SortBySize(ms) ==
    LET grp(n) == IF tie = "kept" THEN OfSize(ms, n) ELSE Reverse(OfSize(ms, n))
    IN  grp(4) \o grp(3) \o grp(2) \o grp(1)

getAllValidMoves(bd) ==
    Only({SortBySize(ret) : ret \in {Enumerate(bd, -NumSwaps)}})

Range(s) == {s[i] : i \in 1 .. Len(s)}

----------------------------------------------------------------------------
(* The puzzle input.  parseBoard constructs Board{difficulty} and pushes   *)
(* the cards of each input line onto field[0], field[1], ... in turn; the  *)
(* last line is short when NumFields does not divide NumCards.  The inputs *)
(* tried lay a deck out column by column: the sorted deck 0000 1111 ...,   *)
(* the sorted deck read with a stride that steps over all suits but two,   *)
(* which mixes the suits in every column, and a deck of equal pairs.       *)

StrideDeck(k) ==
    [i \in 1 .. NumCards |-> (((i - 1) * k) % NumCards) \div SuitSize]

Strides == {1, 1 + SuitSize * (NumSuits - 2)}

IsDeck(deck) == \A c \in Cards : CountIn(deck, c) = SuitSize

\* the position in the deck of the first card of column col
ColumnStart(col) ==
    col * (NumCards \div NumFields)
    + (IF col < NumCards % NumFields THEN col ELSE NumCards % NumFields)

\* the input lines whose columns are consecutive blocks of deck
InputLines(deck) ==
    [i \in 1 .. NumCards |->
        deck[ColumnStart((i - 1) % NumFields) + ((i - 1) \div NumFields) + 1]]

\* the deck of equal pairs 0 0 1 1 2 2 ..., the suits shifted by one after
\* each round, so that every column ends in a run and the runs differ
PairDeck ==
    [i \in 1 .. NumCards |->
        (((i - 1) \div 2) + (((i - 1) \div 2) \div NumSuits)) % NumSuits]

Decks ==
    {InputLines(deck) : deck \in {d \in {StrideDeck(k) : k \in Strides}
                                           \cup {PairDeck} : IsDeck(d)}}

RECURSIVE DealFrom(_, _, _)
DealFrom(bd, deck, pos) ==
    IF pos > Len(deck) THEN bd
    ELSE DealFrom(setField(bd, (pos - 1) % NumFields,
                           CardStack_pushCard(getField(bd, (pos - 1) % NumFields),
                                              deck[pos])),
                  deck, pos + 1)

parseBoard(d, deck) == DealFrom(NewBoard(d), deck, 1)

InitialBoards == {parseBoard(d, deck) : d \in Difficulty, deck \in Decks}

----------------------------------------------------------------------------
(* PlaySpec: every board reachable from a puzzle input by executing moves  *)
(* that getAllValidMoves returns.  Which moves are returned does not       *)
(* depend on the order the sort leaves them in, so tie is fixed here.      *)

PlayInit ==
    /\ b \in {bd \in InitialBoards : isValid(bd)}
    /\ tie = "kept"
    /\ pc = "play"
    /\ stack = <<>>
    /\ move_stack = <<>>
    /\ boards = {}
    /\ b2 = b
    /\ replay_pos = 0

Play ==
    /\ pc = "play"
    /\ \E m \in Range(getAllValidMoves(b2)) :
          b2' = executeMove(b2, m)
    /\ UNCHANGED <<b, tie, pc, stack, move_stack, boards, replay_pos>>

PlayNext == Play

PlaySpec == PlayInit /\ [][PlayNext]_vars

----------------------------------------------------------------------------
(* solve(): one action per pass through the while loop, then main().       *)
(* pc: "main" before the call of solve, "loop" at the loop head with a     *)
(* non-empty frame stack, "returned" at solve's return, "replay" in main's *)
(* replay loop, "exit" at main's return 0, "abort" when an assertion or a  *)
(* library precondition check stopped the process.                         *)

\* mutation of NewFrame: the cursor of a new frame starts past the first move
NewFrame_skipFirst(bd) ==
    [b |-> bd, valid_moves |-> getAllValidMoves(bd),
     current_move |-> IF getAllValidMoves(bd) = <<>> THEN 0 ELSE 1]

\* State{ .b = b, .valid_moves = getAllValidMoves(b) }, current_move = 0
NewFrame(bd) ==
    [b |-> bd, valid_moves |-> getAllValidMoves(bd), current_move |-> 0]

\* mutation of AdvanceCursor: the increment is lost
AdvanceCursor_stuck(frames) == frames

\* ++stack.back().current_move
AdvanceCursor(frames) ==
    [frames EXCEPT ![Len(frames)].current_move = @ + 1]

\* What move_stack can hold after pop_back() on an empty vector.  The call
\* is undefined: the end pointer steps below the buffer, so size() wraps
\* and the elements read are whatever memory holds; one arbitrary element
\* stands for that content.
GarbageMoves == {Move(f, t, n) : f \in {0, NumFields}, t \in {-1, 0}, n \in {0, 1}}

Init ==
    /\ b \in {bd \in InitialBoards : isValid(bd)}
    /\ tie \in TieOrders
    /\ pc = "main"
    /\ stack = <<>>
    /\ move_stack = <<>>
    /\ boards = {}
    /\ b2 = b
    /\ replay_pos = 0

\* mutation of SolveEntry: the early return of line 726 is missing
SolveEntry_noEarlyReturn ==
    /\ pc = "main"
    /\ pc' = "loop" /\ stack' = <<NewFrame(b)>>
    /\ UNCHANGED <<b, tie, move_stack, boards, b2, replay_pos>>

\* lines 724-737: the early return for a won board, else the root frame
SolveEntry ==
    /\ pc = "main"
    /\ IF hasWon(b)
       THEN pc' = "returned" /\ stack' = stack
       ELSE pc' = "loop" /\ stack' = <<NewFrame(b)>>
    /\ UNCHANGED <<b, tie, move_stack, boards, b2, replay_pos>>

\* lines 740-744: no more moves at this level
Backtrack ==
    /\ pc = "loop"
    /\ Last(stack).current_move = Len(Last(stack).valid_moves)
    /\ stack' = Front(stack)
    /\ IF move_stack # <<>>
       THEN /\ move_stack' = Front(move_stack)
            /\ pc' = IF stack' = <<>> THEN "returned" ELSE "loop"
       ELSE \* pop_back() on the empty path: undefined behaviour
            \/ /\ pc' = "abort"                       \* checked library build
               /\ move_stack' = move_stack
            \/ /\ \E g \in GarbageMoves : move_stack' = <<g>>   \* size() wrapped
               /\ pc' = IF stack' = <<>> THEN "returned" ELSE "loop"
            \/ /\ move_stack' = <<>>                  \* left empty
               /\ pc' = IF stack' = <<>> THEN "returned" ELSE "loop"
    /\ UNCHANGED <<b, tie, boards, b2, replay_pos>>

\* lines 746-753: try the next move of the top frame
Expand ==
    /\ pc = "loop"
    /\ Last(stack).current_move # Len(Last(stack).valid_moves)
    /\ \E board \in {Last(stack).b},
          m \in {Last(stack).valid_moves[Last(stack).current_move + 1]} :
          \E new_board \in {executeMove(board, m)} :
           IF ~executeMove_asserts(board, m)
           THEN /\ pc' = "abort"
                /\ stack' = AdvanceCursor(stack)
                /\ UNCHANGED <<move_stack, boards>>
           ELSE IF new_board \in boards
           THEN /\ stack' = AdvanceCursor(stack)
                /\ UNCHANGED <<pc, move_stack, boards>>
           ELSE /\ boards' = boards \cup {new_board}
                /\ move_stack' = Append(move_stack, m)
                /\ IF hasWon(new_board)
                   THEN pc' = "returned" /\ stack' = AdvanceCursor(stack)
                   ELSE pc' = "loop"
                        /\ stack' = Append(AdvanceCursor(stack), NewFrame(new_board))
    /\ UNCHANGED <<b, tie, b2, replay_pos>>

\* main, lines 787-795
MainReport ==
    /\ pc = "returned"
    /\ pc' = IF move_stack = <<>> THEN "exit" ELSE "replay"
    /\ b2' = b
    /\ replay_pos' = 0
    /\ UNCHANGED <<b, tie, stack, move_stack, boards>>

\* main, lines 796-799: b2 = executeMove(b2, m) for each returned move; a
\* move that fails an assertion of executeMove stops the process
Replay ==
    /\ pc = "replay"
    /\ IF replay_pos = Len(move_stack)
       THEN pc' = "exit" /\ UNCHANGED <<b2, replay_pos>>
       ELSE IF ~executeMove_asserts(b2, move_stack[replay_pos + 1])
       THEN pc' = "abort" /\ UNCHANGED <<b2, replay_pos>>
       ELSE /\ b2' = executeMove(b2, move_stack[replay_pos + 1])
            /\ replay_pos' = replay_pos + 1
            /\ pc' = pc
    /\ UNCHANGED <<b, tie, stack, move_stack, boards>>

Next == SolveEntry \/ Backtrack \/ Expand \/ MainReport \/ Replay

Spec == Init /\ [][Next]_vars

\* the loop and main run to completion: no step waits on anything
FairSpec == Spec /\ WF_vars(Next)

----------------------------------------------------------------------------
(* PlayThenSolveSpec: solve(Board b) takes its board by value and can be   *)
(* handed any board.  Here it is handed the puzzle input, as main does, or *)
(* a board that play with generated moves has won; main itself never       *)
(* passes a won board, since parseBoard collapses nothing.                 *)

CallSolve ==
    /\ pc = "play"
    /\ b2 = b \/ hasWon(b2)
    /\ b' = b2
    /\ pc' = "main"
    /\ UNCHANGED <<tie, stack, move_stack, boards, b2, replay_pos>>

PlayThenSolveNext ==
    Play \/ CallSolve \/ SolveEntry \/ Backtrack \/ Expand \/ MainReport \/ Replay

PlayThenSolveSpec == PlayInit /\ [][PlayThenSolveNext]_vars

----------------------------------------------------------------------------
(* Auxiliary definitions for the properties *)

\* the frames and the path record a sequence of generated moves that leads
\* from the input board to a won board
StoppedOnWinningPath ==
    /\ stack # <<>>
    /\ Len(move_stack) = Len(stack)
    /\ stack[1].b = b
    /\ \A i \in 1 .. Len(stack) :
          /\ stack[i].valid_moves = getAllValidMoves(stack[i].b)
          /\ stack[i].current_move \in 1 .. Len(stack[i].valid_moves)
          /\ move_stack[i] = stack[i].valid_moves[stack[i].current_move]
          /\ IF i < Len(stack)
             THEN stack[i + 1].b = executeMove(stack[i].b, move_stack[i])
             ELSE hasWon(executeMove(stack[i].b, move_stack[i]))

\* the board the top frame's last tried move leads to is won
FoundWinner ==
    /\ stack # <<>>
    /\ Last(stack).current_move > 0
    /\ hasWon(executeMove(Last(stack).b,
                          Last(stack).valid_moves[Last(stack).current_move]))

Successors(bd) == {executeMove(bd, m) : m \in Range(getAllValidMoves(bd))}

RECURSIVE Closure(_, _)
Closure(seen, frontier) ==
    IF frontier = {} THEN seen
    ELSE LET nxt == UNION {Successors(x) : x \in frontier} \ seen
         IN  Closure(seen \cup nxt, nxt)

\* every board reachable from bd through generated moves
ReachableBoards(bd) == Closure({bd}, {bd})

WonReachable(bd) == \E x \in ReachableBoards(bd) : hasWon(x)

SolveOver == pc \in {"returned", "abort"}

FourEqual(s) == CardStack_size(s) = SuitSize /\ getTopSize(s) = SuitSize

AllMoves == [from : Slots, to : Slots, size : 1 .. 4]

\* bd with every card taken out of play: each non-empty field stack flagged
\* collapsed whatever it holds, each Occupied swap field turned Collapsed
Cleared(bd) ==
    [field |-> [i \in 1 .. NumFields |->
                  IF isEmpty(bd.field[i]) THEN bd.field[i]
                  ELSE [bd.field[i] EXCEPT !.is_collapsed = TRUE]],
     swaps |-> [i \in 1 .. NumSwaps |->
                  IF isOccupied(bd.swaps[i])
                  THEN [bd.swaps[i] EXCEPT !.state = "Collapsed"]
                  ELSE bd.swaps[i]]]

----------------------------------------------------------------------------
(* Properties of solve (Spec, FairSpec) *)

\* C1: whenever solve returns a non-empty move sequence, the replay of main
\* from the input board is legal at every step (the next move passes
\* moveIsValid and moveIsValidForBoard on the board it is applied to) and
\* the board after the last move is won.
C1_ReturnedPathWins ==
    pc = "replay" =>
        IF replay_pos < Len(move_stack)
        THEN /\ moveIsValid(move_stack[replay_pos + 1])
             /\ moveIsValidForBoard(b2, move_stack[replay_pos + 1])
        ELSE hasWon(b2)

\* C2: the search is exhaustive: when solve is over for a board that was not
\* won, either it stopped on a path of generated moves that ends on a won
\* board, or its frame stack is empty and no won board is reachable.
C2_Exhaustive ==
    (SolveOver /\ ~hasWon(b)) =>
        IF stack # <<>>
        THEN StoppedOnWinningPath
        ELSE ~WonReachable(b)

C2_Witness ==
    /\ pc = "returned"
    /\ stack # <<>>
    /\ Len(move_stack) > 2
    /\ Cardinality(boards) > Len(move_stack)

\* C3: when no won board is reachable from a board that is not won, solve
\* exhausts the frame stack and returns a well-defined empty move sequence.
C3_ExhaustionReturnsEmpty ==
    (SolveOver /\ ~hasWon(b)) =>
        \/ stack = <<>> /\ pc # "abort" /\ move_stack = <<>>
        \/ WonReachable(b)

\* C4: solve terminates: eventually the loop is left, with a won board found
\* or the frame stack empty.
C4_Terminates ==
    <>(pc \notin {"main", "loop"} /\ (stack = <<>> \/ FoundWinner))

C4_Witness ==
    /\ pc = "returned"
    /\ Len(stack) > 2
    /\ Cardinality(boards) > Len(move_stack)
    /\ FoundWinner

----------------------------------------------------------------------------
(* Properties of the board under generated moves (PlaySpec) *)

\* C5: card conservation: every board reachable from a valid puzzle input
\* through executeMove on generated moves satisfies isValid.
C5_CardConservation == isValid(b2)

C5_Witness ==
    /\ b2 # b
    /\ \E i \in 1 .. NumSwaps : SwapField_isCollapsed(b2.swaps[i])
    /\ \E i \in 1 .. NumSwaps : isOccupied(b2.swaps[i])

\* C6: the moves getAllValidMoves returns are exactly the moves that pass
\* moveIsValid and moveIsValidForBoard.
C6_GeneratedEqualsLegal ==
    Range(getAllValidMoves(b2)) =
        {m \in AllMoves : moveIsValid(m) /\ moveIsValidForBoard(b2, m)}

\* C7: generating moves and executing a generated move breaks no assertion:
\* max_count is 0 or in 1 .. 4, and each generated move passes both validity
\* checks, the pop and push preconditions, and leaves a valid board.
C7_NoAssertionFails ==
    /\ \A i_from \in Slots : max_count_assert(b2, i_from)
    /\ \A m \in Range(getAllValidMoves(b2)) : executeMove_asserts(b2, m)

C7_Witness ==
    /\ \E i \in 1 .. NumFields : CardStack_isCollapsed(b2.field[i])
    /\ \E m \in Range(getAllValidMoves(b2)) : m.size = 4 /\ isSwapIndex(m.to)

\* C8: collapse monotonicity: no generated move names a collapsed field
\* stack or collapsed swap field as its from or its to, and a collapsed field
\* stack holds 4 equal cards and is the same in the board executeMove returns
\* for any generated move.
C8_CollapseMonotone ==
    /\ \A i \in 1 .. NumFields :
          CardStack_isCollapsed(b2.field[i]) => FourEqual(b2.field[i])
    /\ \A m \in Range(getAllValidMoves(b2)) :
          /\ \A i \in {m.from, m.to} :
                IF isSwapIndex(i) THEN ~SwapField_isCollapsed(getSwap(b2, i))
                ELSE ~CardStack_isCollapsed(getField(b2, i))
          /\ \A i \in 1 .. NumFields :
                CardStack_isCollapsed(b2.field[i]) =>
                    executeMove(b2, m).field[i] = b2.field[i]

C8_Witness ==
    /\ \E i \in 1 .. NumFields : CardStack_isCollapsed(b2.field[i])
    /\ \E i \in 1 .. NumSwaps : isOccupied(b2.swaps[i])
    /\ getAllValidMoves(b2) # <<>>

\* C9: in every board reached by executeMove from a puzzle input, a field
\* stack is collapsed exactly when it holds exactly 4 cards and all 4 are
\* equal.
C9_CollapsedIffFourEqual ==
    \A i \in 1 .. NumFields :
        CardStack_isCollapsed(b2.field[i]) <=> FourEqual(b2.field[i])

\* C10: a won board has no generated move, be it a board reached in play or
\* a board made won by flagging every stack and swap field of one.
C10_WonBoardHasNoMoves ==
    /\ hasWon(b2) => getAllValidMoves(b2) = <<>>
    /\ hasWon(Cleared(b2)) /\ getAllValidMoves(Cleared(b2)) = <<>>

C10_Witness ==
    /\ hasWon(b2)
    /\ \E i \in 1 .. NumSwaps : SwapField_isCollapsed(b2.swaps[i])
    /\ \E i \in 1 .. NumFields : CardStack_isCollapsed(b2.field[i])

----------------------------------------------------------------------------
(* Properties of solve, continued *)

\* C11: solve called on a board that is already won returns the empty
\* sequence at once: no frame is pushed, no move recorded, no board added to
\* the visited set, and the loop is never entered.
C11_WonBoardReturnsAtOnce ==
    (pc # "play" /\ hasWon(b)) =>
        /\ pc \in {"main", "returned", "exit"}
        /\ stack = <<>>
        /\ move_stack = <<>>
        /\ boards = {}

C11_Witness ==
    /\ pc = "exit"
    /\ hasWon(b)
    /\ \E i \in 1 .. NumSwaps : SwapField_isCollapsed(b.swaps[i])
    /\ \E i \in 1 .. NumFields : CardStack_isCollapsed(b.field[i])

\* C12: visited-state pruning: no board is expanded twice.  Every frame
\* above the root holds a board of the visited set, the frames hold pairwise
\* different boards, and the input board, expanded as the root frame, is
\* never taken for a new board.
C12_NoBoardExpandedTwice ==
    pc \in {"loop", "returned"} =>
        /\ b \notin boards
        /\ \A i \in 2 .. Len(stack) : stack[i].b \in boards
        /\ \A i, j \in 1 .. Len(stack) : i # j => stack[i].b # stack[j].b

----------------------------------------------------------------------------
(* Properties of executeMove steps (PlaySpec) *)

\* the swap fields that are Locked in bd and no longer Locked in result
NewlyUnlocked(bd, result) ==
    {i \in 1 .. NumSwaps : isLocked(bd.swaps[i]) /\ ~isLocked(result.swaps[i])}

\* move m made its destination field stack collapse
CollapsedDestination(bd, m, result) ==
    /\ isFieldIndex(m.to)
    /\ ~CardStack_isCollapsed(getField(bd, m.to))
    /\ CardStack_isCollapsed(getField(result, m.to))

\* some field stack that was not collapsed before the step is collapsed after
StackCollapsedInStep ==
    \E i \in 1 .. NumFields :
        ~CardStack_isCollapsed(b2.field[i]) /\ CardStack_isCollapsed(b2'.field[i])

\* C13: swap fields unlock only when a field stack collapses: an executeMove
\* step unlocks a swap field only if it collapsed a field stack, and then
\* exactly the lowest Locked slot, if there is one, becomes Free; a step that
\* collapses a swap field or nothing unlocks no field.
C13_UnlockOnlyOnCollapse ==
    [][\E unlocked \in {NewlyUnlocked(b2, b2')} :
          /\ Cardinality(unlocked) <= 1
          /\ \A i \in unlocked :
                /\ isFree(b2'.swaps[i])
                /\ \A j \in 1 .. (i - 1) : ~isLocked(b2.swaps[j])
          /\ IF StackCollapsedInStep
             THEN (\E i \in 1 .. NumSwaps : isLocked(b2.swaps[i]))
                      => unlocked # {}
             ELSE unlocked = {}]_vars

C13_Witness ==
    /\ \E i \in 1 .. NumSwaps : isLocked(b2.swaps[i])
    /\ \E m \in Range(getAllValidMoves(b2)) :
          CollapsedDestination(b2, m, executeMove(b2, m))
    /\ \E m \in Range(getAllValidMoves(b2)) :
          isSwapIndex(m.to) /\ m.size = SuitSize

\* the changes of state one executeMove can make to a swap field: unlock,
\* pushCard, popCard, and pushStack of 4 cards, which passes through Occupied
LifecycleSteps ==
    {<<"Locked", "Free">>, <<"Free", "Occupied">>, <<"Occupied", "Free">>,
     <<"Free", "Collapsed">>}

\* some field stack lost exactly SuitSize copies of card c in the step
SuitLeftAStack(c) ==
    \E j \in 1 .. NumFields :
        b2.field[j].stack = b2'.field[j].stack \o Repeat(c, SuitSize)

\* C14: swap field lifecycle: over every executeMove step a swap field keeps
\* its state or moves along Locked -> Free -> Occupied -> {Free | Collapsed};
\* a Collapsed field never changes again and holds a card, a field becomes
\* Collapsed only as the Free destination of one move of 4 cards, and no
\* field returns to Locked.
C14_SwapLifecycle ==
    [][\A i \in 1 .. NumSwaps :
          \E old \in {b2.swaps[i]}, new \in {b2'.swaps[i]} :
              /\ new.state \in FieldState
              /\ (new.card \in Cards) <=>
                     (isOccupied(new) \/ SwapField_isCollapsed(new))
              /\ old.state # new.state =>
                     <<old.state, new.state>> \in LifecycleSteps
              /\ SwapField_isCollapsed(old) => new = old
              /\ ~isLocked(old) => ~isLocked(new)
              /\ (~SwapField_isCollapsed(old) /\ SwapField_isCollapsed(new)) =>
                     /\ isFree(old)
                     /\ SuitLeftAStack(new.card)]_vars

C14_Witness ==
    /\ \A st \in FieldState : \E i \in 1 .. NumSwaps : b2.swaps[i].state = st
    /\ \E m \in Range(getAllValidMoves(b2)) : isSwapIndex(m.from)

----------------------------------------------------------------------------
(* Properties of the order of the generated moves (Spec) *)

\* the sizes of ms never increase from front to back
SizesDescend(ms) ==
    \A i, j \in 1 .. Len(ms) : i < j => ms[i].size >= ms[j].size

\* C15: move ordering: in the list getAllValidMoves returns, as every search
\* frame holds it, the move sizes are non-increasing from front to back.
C15_MovesBySizeDescending ==
    stack # <<>> =>
        /\ Last(stack).valid_moves = getAllValidMoves(Last(stack).b)
        /\ \A k \in 1 .. Len(stack) : SizesDescend(stack[k].valid_moves)

C15_Witness ==
    /\ stack # <<>>
    /\ ~SizesDescend(Enumerate(Last(stack).b, -NumSwaps))
    /\ Cardinality({m.size : m \in Range(Last(stack).valid_moves)}) > 2

\* C16: tie-break: among the returned moves of one size the order is that
\* of the enumeration (from ascending, then to ascending); the sort by size
\* never reorders moves of equal size.
C16_TieBreakIsEnumerationOrder ==
    stack # <<>> =>
        \A n \in 1 .. SuitSize :
            OfSize(Last(stack).valid_moves, n)
                = OfSize(Enumerate(Last(stack).b, -NumSwaps), n)

----------------------------------------------------------------------------
(* Determinism of solve (Spec) *)

PcValues == {"play", "main", "loop", "returned", "replay", "exit", "abort"}

\* what the path can be after one step of solve that is a function of the
\* search state: left alone, one move popped, or a move of the top frame
\* appended
PathCandidates ==
    {move_stack, Front(move_stack)}
        \cup (IF stack = <<>> THEN {}
              ELSE {Append(move_stack, m) : m \in Range(Last(stack).valid_moves)})

\* C17: determinism: every step of solve is a function of the current search
\* state, so that two runs on equal boards return identical move sequences:
\* in each state of solve exactly one next position and exactly one next
\* path are possible.
C17_SolveIsDeterministic ==
    pc \in {"main", "loop"} =>
        /\ Cardinality({p \in PcValues : ENABLED (Next /\ pc' = p)}) = 1
        /\ Cardinality({v \in PathCandidates :
                           ENABLED (Next /\ move_stack' = v)}) = 1
        /\ ~ENABLED (Next /\ move_stack' \notin PathCandidates)

----------------------------------------------------------------------------
(* Frames and path of solve (Spec) *)

\* the top frame has tried all its moves: the next iteration backtracks
TopExhausted == Last(stack).current_move = Len(Last(stack).valid_moves)

\* the board the next move of the top frame leads to
NextBoard ==
    executeMove(Last(stack).b,
                Last(stack).valid_moves[Last(stack).current_move + 1])

\* C18: path/frame correspondence: at the head of the loop the path has one
\* move less than there are frames and its i-th move leads from the i-th
\* frame's board to the next frame's board; an iteration on an already
\* visited successor pushes and pops nothing and leaves the path alone; a
\* backtrack removes exactly one frame and exactly one path move.
C18_PathMatchesFrames ==
    pc = "loop" =>
        /\ Len(move_stack) = Len(stack) - 1
        /\ \A i \in 1 .. (Len(stack) - 1) :
              executeMove(stack[i].b, move_stack[i]) = stack[i + 1].b
        /\ IF TopExhausted
           THEN /\ move_stack # <<>>
                /\ ~ENABLED (Next /\ ~(/\ stack' = Front(stack)
                                       /\ move_stack' = Front(move_stack)))
           ELSE NextBoard \in boards =>
                    ~ENABLED (Next /\ ~(/\ Len(stack') = Len(stack)
                                        /\ \A i \in 1 .. Len(stack) :
                                              stack'[i].b = stack[i].b
                                        /\ move_stack' = move_stack
                                        /\ boards' = boards))

----------------------------------------------------------------------------
(* Effect of executeMove (PlayThenSolveSpec) *)

\* what move m with moved card c did to its source
SourceEffect(bd, m, c, result) ==
    IF isSwapIndex(m.from)
    THEN /\ getSwap(bd, m.from).card = c
         /\ getSwap(result, m.from) = [card |-> nullopt, state |-> "Free"]
    ELSE \E old \in {getField(bd, m.from)}, new \in {getField(result, m.from)} :
            /\ Len(old.stack) >= m.size
            /\ \A k \in (Len(old.stack) - m.size + 1) .. Len(old.stack) :
                  old.stack[k] = c
            /\ new.stack = SubSeq(old.stack, 1, Len(old.stack) - m.size)
            /\ new.is_collapsed = old.is_collapsed

\* what move m with moved card c did to its destination
DestinationEffect(bd, m, c, result) ==
    IF isSwapIndex(m.to)
    THEN getSwap(result, m.to) =
            [card |-> c,
             state |-> IF m.size = 1 THEN "Occupied" ELSE "Collapsed"]
    ELSE \E old \in {getField(bd, m.to)}, new \in {getField(result, m.to)} :
            /\ new.stack = old.stack \o [k \in 1 .. m.size |-> c]
            /\ new.is_collapsed <=> FourEqual(new)

\* what move m did to the stacks and swap fields it does not name
FrameEffect(bd, m, result) ==
    /\ \A i \in 0 .. (NumFields - 1) :
          i \notin {m.from, m.to} => getField(result, i) = getField(bd, i)
    /\ \E changed \in {{i \in (-NumSwaps) .. (-1) :
                            /\ i \notin {m.from, m.to}
                            /\ getSwap(result, i) # getSwap(bd, i)}} :
          /\ Cardinality(changed) <= 1
          /\ \A i \in changed :
                /\ CollapsedDestination(bd, m, result)
                /\ isLocked(getSwap(bd, i))
                /\ getSwap(result, i) = [getSwap(bd, i) EXCEPT !.state = "Free"]

\* C19: effect and frame of executeMove for a generated move: the source
\* loses its top `size` cards (a swap its card, becoming Free), the
\* destination gains `size` copies of the moved card (a swap becomes Occupied
\* or, for size 4, Collapsed; a field stack is then collapsed iff it holds
\* exactly 4 equal cards), and nothing else changes but at most one swap
\* field going from Locked to Free when the destination stack collapsed.
C19_ExecuteMoveEffect ==
    \A m \in Range(getAllValidMoves(b2)) :
        \E result \in {executeMove(b2, m)}, c \in {movedCard(b2, m)} :
            /\ c \in Cards
            /\ SourceEffect(b2, m, c, result)
            /\ DestinationEffect(b2, m, c, result)
            /\ FrameEffect(b2, m, result)

C19_Witness ==
    /\ \E m \in Range(getAllValidMoves(b2)) :
          /\ isSwapIndex(m.from)
          /\ CollapsedDestination(b2, m, executeMove(b2, m))
          /\ NewlyUnlocked(b2, executeMove(b2, m)) # {}
    /\ \E m \in Range(getAllValidMoves(b2)) :
          isFieldIndex(m.from) /\ isSwapIndex(m.to)

----------------------------------------------------------------------------
(* Unlock accounting (PlaySpec) *)

\* how many swap fields of bd are not Locked
Unlocked(bd) == Cardinality({i \in 1 .. NumSwaps : ~isLocked(bd.swaps[i])})

\* how many field stacks of bd are collapsed
CollapsedStacks(bd) ==
    Cardinality({i \in 1 .. NumFields : CardStack_isCollapsed(bd.field[i])})

Min(x, y) == IF x < y THEN x ELSE y

\* C20: unlock accounting: the puzzle input has the swap fields of its
\* difficulty unlocked, and in every board reached from it the swap fields
\* that are not Locked are exactly array slots 0 .. k-1, with k the smaller
\* of 4 and the number unlocked in the input plus the number of collapsed
\* field stacks.
C20_UnlockAccounting ==
    /\ \E d \in Difficulty : Unlocked(b) = free_swaps(d)
    /\ \E k \in {Min(NumSwaps, Unlocked(b) + CollapsedStacks(b2))} :
          \A i \in 1 .. NumSwaps : isLocked(b2.swaps[i]) <=> i > k

C20_Witness ==
    /\ CollapsedStacks(b2) > 0
    /\ Unlocked(b2) = Unlocked(b) + CollapsedStacks(b2)
    /\ \E i \in 1 .. NumSwaps : isLocked(b2.swaps[i])
    /\ \E i \in 1 .. NumSwaps : isOccupied(b2.swaps[i])

----------------------------------------------------------------------------
(* The path solve returns (Spec) *)

\* every move of moves passes the assertions of executeMove on the board
\* the replay of main applies it to
RECURSIVE Replayable(_, _)
Replayable(bd, moves) ==
    IF moves = <<>> THEN TRUE
    ELSE /\ executeMove_asserts(bd, Head(moves))
         /\ Replayable(executeMove(bd, Head(moves)), Tail(moves))

\* the boards of the replay of main: bd, then the board after each move
RECURSIVE ReplayBoards(_, _)
ReplayBoards(bd, moves) ==
    IF moves = <<>> THEN <<bd>>
    ELSE <<bd>> \o ReplayBoards(executeMove(bd, Head(moves)), Tail(moves))

PairwiseDistinct(seq) ==
    \A i, j \in 1 .. Len(seq) : i # j => seq[i] # seq[j]

\* C21: the move sequence solve returns is cycle-free: the boards of its
\* replay from the input board, the input board included, are pairwise
\* different.
C21_ReturnedPathCycleFree ==
    (pc = "returned" /\ Replayable(b, move_stack)) =>
        PairwiseDistinct(ReplayBoards(b, move_stack))

----------------------------------------------------------------------------
(* Sufficiency of the validity checks (PlaySpec) *)

\* C22: the two validity checks are sufficient for execution: on every
\* board reached in play, a move that passes moveIsValid and
\* moveIsValidForBoard passes every precondition of executeMove and of the
\* pops and pushes it makes, and the board returned satisfies isValid.
C22_ChecksSufficeForExecution ==
    \A m \in AllMoves :
        (moveIsValid(m) /\ moveIsValidForBoard(b2, m)) =>
            executeMove_asserts(b2, m)

============================================================================
